---- MODULE Spec2Model ----
(***************************************************************************)
(* Session lifecycle layer of chainlit (backend/chainlit/session.py):      *)
(* the two process-wide registries ws_sessions_sid / ws_sessions_id, the   *)
(* WebsocketSession objects they hold, reconnection (restore), teardown    *)
(* (delete), the per-method deferred queues (flush_method_queue) and the   *)
(* per-session file store (persist_file); the identity resolver of         *)
(* backend/chainlit/auth/__init__.py (authenticate_user, get_current_user) *)
(* and the wrapper of user callables of backend/chainlit/utils.py          *)
(* (wrap_user_function).                                                   *)
(*                                                                         *)
(* Scheduling is asyncio's: one thread, a task runs until it awaits.  A    *)
(* synchronous method is one action; a coroutine is one action per stretch *)
(* of code between two awaits.                                             *)
(***************************************************************************)
EXTENDS Integers, Sequences, FiniteSets, TLC

\* ------------------------------------------------------------------ bounds
\* WebsocketSession objects ever constructed
MaxObj == 2
\* objects constructed where one session's life is followed
MaxLifecycleObj == 1
\* persist_file calls that get as far as generating a file id
MaxFiles == 2
\* deferred entries ever enqueued
MaxEntries == 3
\* subsessions registered on one session
MaxMcp == 2
\* flush_method_queue tasks
MaxFlushTasks == 2
\* parameters of a wrapped user function, and arguments of a call of its wrapper
MaxParams == 2

\* ------------------------------------------------------------------ values
None == "None"
NoObj == 0
Obj == 1..MaxObj
SessionIds == {"s1", "s2"}
SocketIds == {"a", "b", "c"}
\* the construction arguments besides the two ids: thread_id, user
ConstructArgs == {[thread_id |-> None, user |-> None],
                  [thread_id |-> "t1", user |-> "u1"]}
MethodNames == {"m1", "m2"}
McpKeys == {"k" \o ToString(i) : i \in 1..MaxMcp}
FlushTasks == 1..MaxFlushTasks
MimeTypes == {"text/plain", "x-unknown/x"}
PathArgs == {None, "", "/src"}

Str(s) == [kind |-> "str", data |-> s]
BytesOf(s) == [kind |-> "bytes", data |-> s]
NoContent == [kind |-> "none", data |-> <<>>]
ContentArgs ==
    {NoContent, Str(<<>>), Str(<<"a">>), Str(<<"e_acute">>), BytesOf(<<>>), BytesOf(<<0>>)}

VARIABLES
    nobj,             \* objects 1..nobj have been constructed
    session,          \* the fields of each WebsocketSession object
    ws_sessions_sid,  \* socket id -> object
    ws_sessions_id,   \* session id -> object
    dirs,             \* session ids whose files_dir exists on disk
    disk,             \* the files on disk under FILES_DIRECTORY
    next_file_id,     \* uuid4 of persist_file: the next fresh file id
    next_entry,       \* the next deferred entry's identity
    del,              \* per object: the delete() coroutine
    pst,              \* per object: the persist_file() coroutine
    flush,            \* per flush task: the flush_method_queue() coroutine
    calls,            \* per object: the deferred entries invoked, in order
    last,             \* the method whose code ran in the last step, and on which object
    cfg,              \* the configuration: environment, registered callbacks, data layer
    store,            \* the persistent-identity store: identifier -> persisted user
    auth,             \* the get_current_user / authenticate_user coroutine
    wrap              \* the wrapper coroutine of wrap_user_function

vars == <<nobj, session, ws_sessions_sid, ws_sessions_id, dirs, disk,
          next_file_id, next_entry, del, pst, flush, calls, last,
          cfg, store, auth, wrap>>

\* the state of the identity resolver and of the wrapper of user callables
request_vars == <<cfg, store, auth, wrap>>

\* ------------------------------------------------------------ the objects
\* An object that has not been constructed yet.
NoSession ==
    [id |-> None, socket_id |-> None, restored |-> FALSE, thread_id |-> None,
     thread_id_to_resume |-> None, user |-> None, chat_settings |-> 0,
     files |-> {}, thread_queues |-> <<>>, mcp_sessions |-> <<>>]

IdleDelete == [pc |-> "idle", k |-> 0, released |-> <<>>, failed |-> {}]
IdlePersist == [pc |-> "idle", fid |-> 0, name |-> None, mime |-> None,
                path |-> None, given |-> "none", data |-> <<>>, result |-> None]
IdleFlush == [pc |-> "idle", obj |-> NoObj, qi |-> 0, size0 |-> 0, result |-> None]

Constructed(o) == o \in 1..nobj

\* WebsocketSession.get
get(socket_id) == ws_sessions_sid[socket_id]

\* WebsocketSession.get_by_id
get_by_id(session_id) == ws_sessions_id[session_id]

\* files_dir: FILES_DIRECTORY / self.id
files_dir(o) == session[o].id

\* ------------------------------------------------- identities and requests
\* Python's True and False where a value may also be None.
PyTrue == "True"
PyFalse == "False"

\* bool(v) of a value that is None, a bool or a str.
Truthy(v) == v \notin {None, PyFalse, ""}

\* The value of `a or b`: a when it is truthy, else b.
PyOr(a, b) == IF Truthy(a) THEN a ELSE b

\* The value of `a and b`: a when it is falsy, else b.
PyAnd(a, b) == IF Truthy(a) THEN b ELSE a

PyBool(b) == IF b THEN PyTrue ELSE PyFalse

\* What the process is configured with: os.environ["CHAINLIT_CUSTOM_AUTH"]
\* (None when unset), the callbacks of config.code, the number of providers
\* get_configured_oauth_providers() returns, and get_data_layer().
Configs ==
    [CHAINLIT_CUSTOM_AUTH : {None, "", "true", "0"},
     password_auth_callback : {None, "cb"},
     header_auth_callback : {None, "cb"},
     oauth_callback : {None, "cb"},
     oauth_providers : {<<>>, <<"github">>},
     data_layer : {None, "data_layer"}]

NoConfig ==
    [CHAINLIT_CUSTOM_AUTH |-> None, password_auth_callback |-> None,
     header_auth_callback |-> None, oauth_callback |-> None,
     oauth_providers |-> <<>>, data_layer |-> None]

Identifiers == {"ann", "bob"}
DisplayNames == {None, "", "Ann"}

\* no identity: the Python None where a User is expected
NoUser == [kind |-> "None"]

\* chainlit.user.User as decoded from a credential
User(identifier, display_name) ==
    [kind |-> "User", identifier |-> identifier, display_name |-> display_name]

\* chainlit.user.PersistedUser as the data layer returns it
PersistedUser(identifier, display_name) ==
    [kind |-> "PersistedUser", identifier |-> identifier, display_name |-> display_name,
     id |-> "id-" \o identifier]

\* the bearer tokens a request may carry (None: no cookie, no header)
Tokens == {None, "expired", "ann", "ann-blank", "ann-unnamed", "bob"}

\* what the store may hold for an identifier when the process starts
Stores ==
    {st \in [Identifiers -> {NoUser} \cup {PersistedUser(i, d) : i \in Identifiers, d \in {None, "Old"}}] :
        \A i \in Identifiers : st[i] # NoUser => st[i].identifier = i}

NoResult == [kind |-> "pending"]

IdleAuth ==
    [pc |-> "idle", entry |-> None, token |-> None, user |-> NoUser,
     result |-> NoResult, trace |-> <<>>, logged |-> <<>>]

IdleWrap ==
    [pc |-> "idle", with_task |-> FALSE, is_coroutine |-> FALSE, params |-> 0,
     params_values |-> 0, outcome |-> None, events |-> <<>>, pending |-> NoResult, result |-> NoResult]

InitSessions ==
    /\ nobj = 0
    /\ session = [o \in Obj |-> NoSession]
    /\ ws_sessions_sid = [s \in SocketIds |-> NoObj]
    /\ ws_sessions_id = [s \in SessionIds |-> NoObj]
    /\ dirs = {}
    /\ disk = {}
    /\ next_file_id = 1
    /\ next_entry = 1
    /\ del = [o \in Obj |-> IdleDelete]
    /\ pst = [o \in Obj |-> IdlePersist]
    /\ flush = [t \in FlushTasks |-> IdleFlush]
    /\ calls = [o \in Obj |-> <<>>]
    /\ last = [op |-> "none", obj |-> NoObj]

\* No session, no request; nothing is configured and the store is empty.
Init ==
    /\ InitSessions
    /\ cfg = NoConfig
    /\ store = [i \in Identifiers |-> NoUser]
    /\ auth = IdleAuth
    /\ wrap = IdleWrap

\* --------------------------------------------------------------- registry
\* BaseSession.__init__ and WebsocketSession.__init__: the fields of the new
\* object.  thread_id is the argument when truthy, else a fresh uuid4.
NewSession(o, id, socket_id, thread_id, user) ==
    [id |-> id, socket_id |-> socket_id, restored |-> FALSE,
     thread_id |-> IF thread_id # None THEN thread_id ELSE "uuid" \o ToString(o),
     thread_id_to_resume |-> thread_id, user |-> user, chat_settings |-> 0,
     files |-> {}, thread_queues |-> <<>>, mcp_sessions |-> <<>>]

\* Faulty variant of WebsocketSession_init: the socket-id registration is forgotten.
WebsocketSession_init_no_sid(o, id, socket_id, thread_id, user) ==
    /\ session' = [session EXCEPT ![o] = NewSession(o, id, socket_id, thread_id, user)]
    /\ ws_sessions_id' = [ws_sessions_id EXCEPT ![id] = o]
    /\ ws_sessions_sid' = ws_sessions_sid
    /\ nobj' = o

\* WebsocketSession.__init__: build the object, then register it in both
\* tables (whatever they held under these keys is overwritten).
WebsocketSession_init(o, id, socket_id, thread_id, user) ==
    /\ session' = [session EXCEPT ![o] = NewSession(o, id, socket_id, thread_id, user)]
    /\ ws_sessions_id' = [ws_sessions_id EXCEPT ![id] = o]
    /\ ws_sessions_sid' = [ws_sessions_sid EXCEPT ![socket_id] = o]
    /\ nobj' = o

\* Faulty variant of restore: the entry under the old socket id is left in place.
restore_keeps_old(o, new_socket_id) ==
    /\ ws_sessions_sid' = [ws_sessions_sid EXCEPT ![new_socket_id] = o]
    /\ session' = [session EXCEPT ![o].socket_id = new_socket_id,
                                  ![o].restored = TRUE]

\* Faulty variant of restore: the old entry is popped after the new one is written, so a
\* reconnection under the same socket id unregisters the session.
restore_pop_last(o, new_socket_id) ==
    /\ ws_sessions_sid' =
          [[ws_sessions_sid EXCEPT ![new_socket_id] = o]
              EXCEPT ![session[o].socket_id] = NoObj]
    /\ session' = [session EXCEPT ![o].socket_id = new_socket_id,
                                  ![o].restored = TRUE]

\* Faulty variant of restore: the session is re-initialised on reconnection.
restore_resets_state(o, new_socket_id) ==
    /\ ws_sessions_sid' =
          [[ws_sessions_sid EXCEPT ![session[o].socket_id] = NoObj]
              EXCEPT ![new_socket_id] = o]
    /\ session' = [session EXCEPT ![o].socket_id = new_socket_id,
                                  ![o].restored = TRUE,
                                  ![o].files = {},
                                  ![o].thread_queues = <<>>]

\* WebsocketSession.restore: pop the entry under the current socket id (whatever
\* object it holds), register under the new one, update the two fields.
restore(o, new_socket_id) ==
    /\ ws_sessions_sid' =
          [[ws_sessions_sid EXCEPT ![session[o].socket_id] = NoObj]
              EXCEPT ![new_socket_id] = o]
    /\ session' = [session EXCEPT ![o].socket_id = new_socket_id,
                                  ![o].restored = TRUE]

Construct(id, socket_id, thread_id, user) ==
    /\ nobj < MaxObj
    /\ WebsocketSession_init(nobj + 1, id, socket_id, thread_id, user)
    /\ last' = [op |-> "init", obj |-> nobj + 1]
    /\ UNCHANGED request_vars
    /\ UNCHANGED <<dirs, disk, next_file_id, next_entry, del, pst, flush, calls>>

Restore(o, new_socket_id) ==
    /\ Constructed(o)
    /\ restore(o, new_socket_id)
    /\ last' = [op |-> "restore", obj |-> o]
    /\ UNCHANGED request_vars
    /\ UNCHANGED <<nobj, ws_sessions_id, dirs, disk, next_file_id, next_entry,
                   del, pst, flush, calls>>

\* shutil.rmtree(files_dir), guarded by files_dir.is_dir(): the directory and
\* every file in it go; nothing happens when the directory is not there.
rmtree(d) ==
    /\ dirs' = dirs \ {d}
    /\ disk' = {f \in disk : f.path.dir # d}

\* Faulty variant of delete_begin: the directory is left on disk.
delete_begin_keeps_dir(o) ==
    /\ UNCHANGED <<dirs, disk>>
    /\ ws_sessions_sid' = [ws_sessions_sid EXCEPT ![session[o].socket_id] = NoObj]
    /\ ws_sessions_id' = [ws_sessions_id EXCEPT ![session[o].id] = NoObj]
    /\ del' = [del EXCEPT ![o] =
          IF session[o].mcp_sessions = <<>>
          THEN [pc |-> "done", k |-> 0, released |-> <<>>, failed |-> {}]
          ELSE [pc |-> "closing", k |-> 1,
                released |-> <<session[o].mcp_sessions[1]>>, failed |-> {}]]

\* delete() up to its first await: remove the directory, pop both registry
\* entries (whatever objects they hold), then enter the loop over
\* mcp_sessions.values(): with no subsession the coroutine returns at once,
\* else it awaits the first exit_stack.aclose().
delete_begin(o) ==
    /\ rmtree(files_dir(o))
    /\ ws_sessions_sid' = [ws_sessions_sid EXCEPT ![session[o].socket_id] = NoObj]
    /\ ws_sessions_id' = [ws_sessions_id EXCEPT ![session[o].id] = NoObj]
    /\ del' = [del EXCEPT ![o] =
          IF session[o].mcp_sessions = <<>>
          THEN [pc |-> "done", k |-> 0, released |-> <<>>, failed |-> {}]
          ELSE [pc |-> "closing", k |-> 1,
                released |-> <<session[o].mcp_sessions[1]>>, failed |-> {}]]

\* Faulty variant of delete_continue: an exception of aclose() is not caught and leaves
\* delete().
delete_continue_propagates(o, raised) ==
    LET d == del[o]
        mcp == session[o].mcp_sessions
    IN  del' = [del EXCEPT ![o] =
          IF raised
          THEN [pc |-> "raised", k |-> d.k, released |-> d.released,
                failed |-> d.failed \cup {mcp[d.k]}]
          ELSE IF d.k < Len(mcp)
          THEN [pc |-> "closing", k |-> d.k + 1,
                released |-> Append(d.released, mcp[d.k + 1]), failed |-> d.failed]
          ELSE [pc |-> "done", k |-> d.k, released |-> d.released, failed |-> d.failed]]

\* delete() from the end of one awaited aclose() to the next await or to the
\* return.  `raised` says whether that aclose() raised an Exception: the
\* except clause swallows it and the loop goes on either way.  (A release that
\* is cancelled raises CancelledError, which is no Exception and no failure of
\* the release: cancellation is not modelled here.)
delete_continue(o, raised) ==
    LET d == del[o]
        mcp == session[o].mcp_sessions
        failed == IF raised THEN d.failed \cup {mcp[d.k]} ELSE d.failed
    IN  del' = [del EXCEPT ![o] =
          IF d.k < Len(mcp)
          THEN [pc |-> "closing", k |-> d.k + 1,
                released |-> Append(d.released, mcp[d.k + 1]), failed |-> failed]
          ELSE [pc |-> "done", k |-> d.k, released |-> d.released, failed |-> failed]]

DeleteStart(o) ==
    /\ Constructed(o)
    /\ del[o].pc # "closing"
    /\ delete_begin(o)
    /\ last' = [op |-> "delete", obj |-> o]
    /\ UNCHANGED request_vars
    /\ UNCHANGED <<nobj, session, next_file_id, next_entry, pst, flush, calls>>

DeleteResume(o, raised) ==
    /\ del[o].pc = "closing"
    /\ delete_continue(o, raised)
    /\ last' = [op |-> "delete", obj |-> o]
    /\ UNCHANGED request_vars
    /\ UNCHANGED <<nobj, session, ws_sessions_sid, ws_sessions_id, dirs, disk,
                   next_file_id, next_entry, pst, flush, calls>>

\* A tool subsession is registered on the session:
\* session.mcp_sessions[key] = (handle, exit_stack).
ConnectMcp(o, key) ==
    /\ Constructed(o)
    /\ del[o].pc # "closing"
    /\ Len(session[o].mcp_sessions) < MaxMcp
    /\ \A i \in 1..Len(session[o].mcp_sessions) : session[o].mcp_sessions[i] # key
    /\ session' = [session EXCEPT ![o].mcp_sessions = Append(@, key)]
    /\ last' = [op |-> "connect_mcp", obj |-> o]
    /\ UNCHANGED request_vars
    /\ UNCHANGED <<nobj, ws_sessions_sid, ws_sessions_id, dirs, disk, next_file_id,
                   next_entry, del, pst, flush, calls>>

\* The UI state of a session is replaced: session.chat_settings = settings.
UpdateChatSettings(o, settings) ==
    /\ Constructed(o)
    /\ session[o].chat_settings # settings
    /\ session' = [session EXCEPT ![o].chat_settings = settings]
    /\ last' = [op |-> "chat_settings", obj |-> o]
    /\ UNCHANGED request_vars
    /\ UNCHANGED <<nobj, ws_sessions_sid, ws_sessions_id, dirs, disk, next_file_id,
                   next_entry, del, pst, flush, calls>>

\* A connection arrives for session id `id` on socket `socket_id`: reconnect the
\* session the session-id table holds for `id`, construct one when it holds none.
CreateOrAttach(id, socket_id, thread_id, user) ==
    /\ IF get_by_id(id) # NoObj
       THEN /\ restore(get_by_id(id), socket_id)
            /\ last' = [op |-> "attach", obj |-> get_by_id(id)]
            /\ UNCHANGED <<nobj, ws_sessions_id>>
       ELSE /\ nobj < MaxObj
            /\ WebsocketSession_init(nobj + 1, id, socket_id, thread_id, user)
            /\ last' = [op |-> "create", obj |-> nobj + 1]
    /\ UNCHANGED request_vars
    /\ UNCHANGED <<dirs, disk, next_file_id, next_entry, del, pst, flush, calls>>

Next ==
    \/ \E id \in SessionIds, sock \in SocketIds : Construct(id, sock, "t1", "u1")
    \/ \E id \in SessionIds, sock \in SocketIds : CreateOrAttach(id, sock, "t1", "u1")
    \/ \E o \in Obj, sock \in SocketIds : Restore(o, sock)
    \/ \E o \in Obj : DeleteStart(o)

\* The registry: constructions, connections, reconnections and deletions of
\* sessions that own no subsession, in any order.
Spec == Init /\ [][Next]_vars

\* ------------------------------------------------------------- file store
\* Python truthiness of the path argument (None and "" are falsy).
TruthyPath(path) == path # None /\ path # ""

\* Python truthiness of the content argument (None, "" and b"" are falsy).
TruthyContent(content) == content.kind # "none" /\ Len(content.data) > 0

\* mimetypes.guess_extension: None for a type it does not know.
guess_extension(mime) == IF mime = "text/plain" THEN ".txt" ELSE None

\* The UTF-8 encoding of one character.
Utf8(ch) == IF ch = "a" THEN <<97>> ELSE <<195, 169>>

\* str.encode("utf-8")
RECURSIVE encode(_)
encode(str) == IF str = <<>> THEN <<>> ELSE Utf8(Head(str)) \o encode(Tail(str))

\* The bytes persist_file writes for a content argument: text is encoded,
\* bytes are written as they are.
ContentBytes(content) ==
    IF content.kind = "str" THEN encode(content.data) ELSE content.data

\* file_path: files_dir / file_id, with the guessed suffix when there is one.
FilePath(o, fid, mime) == [dir |-> files_dir(o), file |-> fid, ext |-> guess_extension(mime)]

\* Faulty variant of persist_begin: the directory is made before the arguments are checked.
persist_begin_mkdir_first(o, name, mime, path, content) ==
    /\ dirs' = dirs \cup {files_dir(o)}
    /\ IF ~TruthyPath(path) /\ ~TruthyContent(content)
       THEN /\ pst' = [pst EXCEPT ![o] =
               [IdlePersist EXCEPT !.result = "ValueError", !.path = path,
                                   !.given = content.kind]]
            /\ UNCHANGED next_file_id
       ELSE /\ next_file_id <= MaxFiles
            /\ next_file_id' = next_file_id + 1
            /\ pst' = [pst EXCEPT ![o] =
                  [pc |-> "open", fid |-> next_file_id, name |-> name, mime |-> mime,
                   path |-> path, given |-> content.kind,
                   data |-> ContentBytes(content), result |-> None]]

\* persist_file up to its first await: reject a call with neither path nor
\* content, else make the directory (exist_ok), draw the file id, derive the
\* file path, and await the opening of the files.
persist_begin(o, name, mime, path, content) ==
    IF ~TruthyPath(path) /\ ~TruthyContent(content)
    THEN /\ pst' = [pst EXCEPT ![o] =
               [IdlePersist EXCEPT !.result = "ValueError", !.path = path,
                                   !.given = content.kind]]
         /\ UNCHANGED <<dirs, next_file_id>>
    ELSE /\ next_file_id <= MaxFiles
         /\ dirs' = dirs \cup {files_dir(o)}
         /\ next_file_id' = next_file_id + 1
         /\ pst' = [pst EXCEPT ![o] =
               [pc |-> "open", fid |-> next_file_id, name |-> name, mime |-> mime,
                path |-> path, given |-> content.kind,
                   data |-> ContentBytes(content), result |-> None]]

\* The awaited aiofiles.open calls: the source (path given) must exist, the
\* destination is created empty in the session directory, which must exist.
\* `src` is what the environment holds at `path`: "missing" or the file's bytes.
persist_open(o, src) ==
    LET p == pst[o]
        fp == FilePath(o, p.fid, p.mime)
    IN  IF (TruthyPath(p.path) /\ src = "missing") \/ fp.dir \notin dirs
        THEN /\ pst' = [pst EXCEPT ![o] =
                   [IdlePersist EXCEPT !.result = "FileNotFoundError", !.fid = p.fid]]
             /\ UNCHANGED disk
        ELSE /\ disk' = {f \in disk : f.path # fp} \cup {[path |-> fp, size |-> 0]}
             /\ pst' = [pst EXCEPT ![o].pc = "write",
                                   ![o].data = IF TruthyPath(p.path) THEN src ELSE @]

\* The awaited write: the bytes reach the file, if it is still in the directory.
persist_write(o) ==
    LET p == pst[o]
        fp == FilePath(o, p.fid, p.mime)
    IN  /\ disk' = {IF f.path = fp THEN [path |-> fp, size |-> Len(p.data)] ELSE f : f \in disk}
        /\ pst' = [pst EXCEPT ![o].pc = "close"]

\* Faulty variant of persist_end: session.files is replaced by a dict holding the new
\* record alone.
persist_end_replaces(o) ==
    LET p == pst[o]
        fp == FilePath(o, p.fid, p.mime)
        onDisk == {f \in disk : f.path = fp}
    IN  IF onDisk = {}
        THEN /\ pst' = [pst EXCEPT ![o] =
                   [IdlePersist EXCEPT !.result = "FileNotFoundError", !.fid = p.fid]]
             /\ UNCHANGED session
        ELSE /\ session' = [session EXCEPT ![o].files =
                   {[id |-> p.fid, path |-> fp, name |-> p.name, type |-> p.mime,
                     size |-> (CHOOSE f \in onDisk : TRUE).size]}]
             /\ pst' = [pst EXCEPT ![o] =
                   [IdlePersist EXCEPT !.result = "ok", !.fid = p.fid]]

\* After the files are closed: stat the file, register the record under the
\* file id in session.files, return the id.
persist_end(o) ==
    LET p == pst[o]
        fp == FilePath(o, p.fid, p.mime)
        onDisk == {f \in disk : f.path = fp}
    IN  IF onDisk = {}
        THEN /\ pst' = [pst EXCEPT ![o] =
                   [IdlePersist EXCEPT !.result = "FileNotFoundError", !.fid = p.fid]]
             /\ UNCHANGED session
        ELSE /\ session' = [session EXCEPT ![o].files =
                   {f \in @ : f.id # p.fid} \cup
                   {[id |-> p.fid, path |-> fp, name |-> p.name, type |-> p.mime,
                     size |-> (CHOOSE f \in onDisk : TRUE).size]}]
             /\ pst' = [pst EXCEPT ![o] =
                   [IdlePersist EXCEPT !.result = "ok", !.fid = p.fid]]

PersistStart(o, name, mime, path, content) ==
    /\ Constructed(o)
    /\ pst[o].pc = "idle"
    /\ persist_begin(o, name, mime, path, content)
    /\ last' = [op |-> "persist_file", obj |-> o]
    /\ UNCHANGED request_vars
    /\ UNCHANGED <<nobj, session, ws_sessions_sid, ws_sessions_id, disk, next_entry,
                   del, flush, calls>>

PersistOpen(o, src) ==
    /\ pst[o].pc = "open"
    /\ persist_open(o, src)
    /\ last' = [op |-> "persist_file", obj |-> o]
    /\ UNCHANGED request_vars
    /\ UNCHANGED <<nobj, session, ws_sessions_sid, ws_sessions_id, dirs, next_file_id,
                   next_entry, del, flush, calls>>

PersistWrite(o) ==
    /\ pst[o].pc = "write"
    /\ persist_write(o)
    /\ last' = [op |-> "persist_file", obj |-> o]
    /\ UNCHANGED request_vars
    /\ UNCHANGED <<nobj, session, ws_sessions_sid, ws_sessions_id, dirs, next_file_id,
                   next_entry, del, flush, calls>>

PersistFinish(o) ==
    /\ pst[o].pc = "close"
    /\ persist_end(o)
    /\ last' = [op |-> "persist_file", obj |-> o]
    /\ UNCHANGED request_vars
    /\ UNCHANGED <<nobj, ws_sessions_sid, ws_sessions_id, dirs, disk, next_file_id,
                   next_entry, del, flush, calls>>

\* ---------------------------------------------------------- deferred calls
\* The position of method name `name` in the thread_queues dict, 0 when absent.
QueueIndex(queues, name) ==
    IF \E i \in 1..Len(queues) : queues[i].name = name
    THEN CHOOSE i \in 1..Len(queues) : queues[i].name = name
    ELSE 0

\* A call is deferred: thread_queues[name] is created when missing (a new key
\* goes last in the dict) and the entry is appended to it.
Enqueue(o, name) ==
    /\ Constructed(o)
    /\ next_entry <= MaxEntries
    /\ LET qs == session[o].thread_queues
           i == QueueIndex(qs, name)
       IN  session' = [session EXCEPT ![o].thread_queues =
               IF i = 0
               THEN Append(qs, [name |-> name, queue |-> <<next_entry>>])
               ELSE [qs EXCEPT ![i].queue = Append(@, next_entry)]]
    /\ next_entry' = next_entry + 1
    /\ last' = [op |-> "enqueue", obj |-> o]
    /\ UNCHANGED request_vars
    /\ UNCHANGED <<nobj, ws_sessions_sid, ws_sessions_id, dirs, disk, next_file_id,
                   del, pst, flush, calls>>

\* The loop of flush_method_queue from the point where the for statement asks
\* the dict iterator for the item at position j: the iterator raises
\* RuntimeError when the dict has changed size since it was created (it checks
\* that before it checks for exhaustion), ends the loop past the last item, and
\* otherwise the while loop runs on the first queue that is not empty.
RECURSIVE flush_scan(_, _, _)
flush_scan(queues, j, size0) ==
    IF Len(queues) # size0 THEN [to |-> "RuntimeError", qi |-> j]
    ELSE IF j > Len(queues) THEN [to |-> "returned", qi |-> j]
    ELSE IF queues[j].queue # <<>> THEN [to |-> "invoke", qi |-> j]
    ELSE flush_scan(queues, j + 1, size0)

\* Faulty variant of popleft: the entry is taken from the right end of the deque.
pop_right(queue) == [entry |-> queue[Len(queue)], rest |-> SubSeq(queue, 1, Len(queue) - 1)]

\* deque.popleft
popleft(queue) == [entry |-> Head(queue), rest |-> Tail(queue)]

\* flush_method_queue arriving at `at`: pop the next entry of that queue and
\* await its invocation, or leave the coroutine.
flush_goto(t, o, at, size0) ==
    IF at.to = "invoke"
    THEN LET p == popleft(session[o].thread_queues[at.qi].queue) IN
         /\ session' = [session EXCEPT ![o].thread_queues[at.qi].queue = p.rest]
         /\ calls' = [calls EXCEPT ![o] = Append(@,
               [entry |-> p.entry, name |-> session[o].thread_queues[at.qi].name,
                status |-> "running", by |-> t])]
         /\ flush' = [flush EXCEPT ![t] =
               [pc |-> "awaiting", obj |-> o, qi |-> at.qi, size0 |-> size0,
                result |-> None]]
    ELSE /\ flush' = [flush EXCEPT ![t] = [IdleFlush EXCEPT !.result = at.to, !.obj = o]]
         /\ UNCHANGED <<session, calls>>

\* The invocation that flush task t awaits ends with `status`.
Settle(cs, t, status) ==
    [i \in 1..Len(cs) |-> IF cs[i].by = t /\ cs[i].status = "running"
                          THEN [cs[i] EXCEPT !.status = status] ELSE cs[i]]

\* Faulty variant of flush_continue: an exception of the awaited method is not caught
\* and leaves flush_method_queue.
flush_continue_propagates(t, raised) ==
    LET f == flush[t]
        o == f.obj
        qs == session[o].thread_queues
    IN  IF raised
        THEN /\ flush' = [flush EXCEPT ![t] = [IdleFlush EXCEPT !.result = "Exception", !.obj = o]]
             /\ calls' = [calls EXCEPT ![o] = Settle(@, t, "failed")]
             /\ UNCHANGED session
        ELSE /\ LET at == IF qs[f.qi].queue # <<>> THEN [to |-> "invoke", qi |-> f.qi]
                          ELSE flush_scan(qs, f.qi + 1, f.size0)
                IN  IF at.to = "invoke"
                    THEN LET p == popleft(qs[at.qi].queue) IN
                         /\ session' = [session EXCEPT ![o].thread_queues[at.qi].queue = p.rest]
                         /\ calls' = [calls EXCEPT ![o] = Append(Settle(@, t, "ok"),
                               [entry |-> p.entry, name |-> qs[at.qi].name, status |-> "running",
                                by |-> t])]
                         /\ flush' = [flush EXCEPT ![t].qi = at.qi]
                    ELSE /\ flush' = [flush EXCEPT ![t] = [IdleFlush EXCEPT !.result = at.to, !.obj = o]]
                         /\ calls' = [calls EXCEPT ![o] = Settle(@, t, "ok")]
                         /\ UNCHANGED session

\* flush_method_queue from the end of an awaited invocation to the next await
\* or to the return.  `raised` says whether the method raised an Exception: it
\* is logged and the loop goes on.  The while loop looks at the current queue
\* again, then the for loop moves on.
flush_continue(t, raised) ==
    LET f == flush[t]
        o == f.obj
        qs == session[o].thread_queues
        status == IF raised THEN "failed" ELSE "ok"
        at == IF qs[f.qi].queue # <<>> THEN [to |-> "invoke", qi |-> f.qi]
              ELSE flush_scan(qs, f.qi + 1, f.size0)
    IN  IF at.to = "invoke"
        THEN LET p == popleft(qs[at.qi].queue) IN
             /\ session' = [session EXCEPT ![o].thread_queues[at.qi].queue = p.rest]
             /\ calls' = [calls EXCEPT ![o] = Append(Settle(@, t, status),
                   [entry |-> p.entry, name |-> qs[at.qi].name, status |-> "running",
                                by |-> t])]
             /\ flush' = [flush EXCEPT ![t].qi = at.qi]
        ELSE /\ flush' = [flush EXCEPT ![t] = [IdleFlush EXCEPT !.result = at.to, !.obj = o]]
             /\ calls' = [calls EXCEPT ![o] = Settle(@, t, status)]
             /\ UNCHANGED session

\* A flush starts on the lowest idle task: the dict iterator is created and the
\* loop runs to its first await, or to the return when every queue is empty.
FlushStart(t, o) ==
    /\ Constructed(o)
    /\ flush[t].pc = "idle"
    /\ \A u \in FlushTasks : u < t => flush[u].pc # "idle"
    /\ LET qs == session[o].thread_queues IN
       flush_goto(t, o, flush_scan(qs, 1, Len(qs)), Len(qs))
    /\ last' = [op |-> "flush", obj |-> o]
    /\ UNCHANGED request_vars
    /\ UNCHANGED <<nobj, ws_sessions_sid, ws_sessions_id, dirs, disk, next_file_id,
                   next_entry, del, pst>>

FlushResume(t, raised) ==
    /\ flush[t].pc = "awaiting"
    /\ flush_continue(t, raised)
    /\ last' = [op |-> "flush", obj |-> flush[t].obj]
    /\ UNCHANGED request_vars
    /\ UNCHANGED <<nobj, ws_sessions_sid, ws_sessions_id, dirs, disk, next_file_id,
                   next_entry, del, pst>>

\* No coroutine is suspended: the calls on the sessions do not overlap.
Quiet ==
    /\ \A o \in Obj : del[o].pc # "closing" /\ pst[o].pc = "idle"
    /\ \A t \in FlushTasks : flush[t].pc = "idle"

\* what the environment may hold at a source path
Sources == {"missing", <<>>, <<7, 7>>}

NextFiles ==
    \/ /\ Quiet
       /\ nobj < MaxLifecycleObj
       /\ \E sock \in SocketIds : Construct("s1", sock, None, None)
    \/ Quiet /\ \E o \in Obj, sock \in SocketIds : Restore(o, sock)
    \/ Quiet /\ \E o \in Obj : DeleteStart(o)
    \/ Quiet /\ \E o \in Obj, mime \in MimeTypes, path \in PathArgs, content \in ContentArgs :
          PersistStart(o, "n", mime, path, content)
    \/ \E o \in Obj, src \in Sources : PersistOpen(o, src)
    \/ \E o \in Obj : PersistWrite(o)
    \/ \E o \in Obj : PersistFinish(o)

\* One session's life with its file store, the calls on it made one after the
\* other: persist_file with every kind of argument, reconnection, deletion.
SpecFiles == Init /\ [][NextFiles]_vars

NextSession ==
    \/ /\ Quiet
       /\ nobj < MaxLifecycleObj
       /\ \E sock \in SocketIds, a \in ConstructArgs :
             Construct("s1", sock, a.thread_id, a.user)
    \/ Quiet /\ \E o \in Obj, sock \in SocketIds : Restore(o, sock)
    \/ Quiet /\ \E o \in Obj, settings \in 0..1 : UpdateChatSettings(o, settings)
    \/ Quiet /\ \E o \in Obj, name \in MethodNames : Enqueue(o, name)
    \/ Quiet /\ \E o \in Obj : PersistStart(o, "n", "text/plain", None, Str(<<"a">>))
    \/ \E o \in Obj : PersistOpen(o, "missing")
    \/ \E o \in Obj : PersistWrite(o)
    \/ \E o \in Obj : PersistFinish(o)

\* One session accumulating state (files, deferred calls, UI settings) between
\* reconnections.
SpecSession == Init /\ [][NextSession]_vars

NextQueue ==
    \/ /\ Quiet
       /\ nobj < MaxLifecycleObj
       /\ \E sock \in SocketIds : Construct("s1", sock, None, None)
    \/ Quiet /\ \E o \in Obj, name \in MethodNames : Enqueue(o, name)
    \/ Quiet /\ \E t \in FlushTasks, o \in Obj : FlushStart(t, o)
    \/ \E t \in FlushTasks, raised \in BOOLEAN : FlushResume(t, raised)

\* One session's deferred calls: calls are enqueued, and flushed by flushes
\* that run one after the other, none enqueued while a flush is suspended.
SpecQueue == Init /\ [][NextQueue]_vars

NextTeardown ==
    \/ /\ Quiet
       /\ nobj < MaxLifecycleObj
       /\ \E id \in SessionIds, sock \in SocketIds : Construct(id, sock, None, None)
    \/ Quiet /\ \E o \in Obj, sock \in SocketIds : Restore(o, sock)
    \/ Quiet /\ \E o \in Obj, key \in McpKeys : ConnectMcp(o, key)
    \/ Quiet /\ \E o \in Obj : PersistStart(o, "n", "text/plain", None, Str(<<"a">>))
    \/ \E o \in Obj : PersistOpen(o, "missing")
    \/ \E o \in Obj : PersistWrite(o)
    \/ \E o \in Obj : PersistFinish(o)
    \/ Quiet /\ \E o \in Obj : DeleteStart(o)
    \/ \E o \in Obj, raised \in BOOLEAN : DeleteResume(o, raised)

\* One session's teardown: files are persisted, subsessions registered, and
\* the session deleted, with no other call overlapping the delete.
SpecTeardown == Init /\ [][NextTeardown]_vars

NextFileRecords ==
    \/ /\ Quiet
       /\ nobj < MaxLifecycleObj
       /\ \E sock \in SocketIds : Construct("s1", sock, None, None)
    \/ Quiet /\ \E o \in Obj, sock \in SocketIds : Restore(o, sock)
    \/ Quiet /\ \E o \in Obj : Enqueue(o, "m1")
    \/ Quiet /\ \E t \in FlushTasks, o \in Obj : FlushStart(t, o)
    \/ \E t \in FlushTasks, raised \in BOOLEAN : FlushResume(t, raised)
    \/ Quiet /\ \E o \in Obj, path \in {None, "/src"}, content \in {NoContent, Str(<<"a">>)} :
                   PersistStart(o, "n", "text/plain", path, content)
    \/ \E o \in Obj, src \in {"missing", <<7, 7>>} : PersistOpen(o, src)
    \/ \E o \in Obj : PersistWrite(o)
    \/ \E o \in Obj : PersistFinish(o)

\* One session's file records over its life: persist_file calls that succeed
\* and that fail, reconnections and flushes of deferred calls, one call after
\* the other.
SpecFileRecords == Init /\ [][NextFileRecords]_vars

NextFilesConcurrent ==
    \/ /\ nobj < MaxLifecycleObj
       /\ \E sock \in SocketIds : Construct("s1", sock, None, None)
    \/ \E o \in Obj, key \in McpKeys : ConnectMcp(o, key)
    \/ \E o \in Obj, path \in {None, "/src"} :
          PersistStart(o, "n", "text/plain", path, Str(<<"a">>))
    \/ \E o \in Obj, src \in Sources : PersistOpen(o, src)
    \/ \E o \in Obj : PersistWrite(o)
    \/ \E o \in Obj : PersistFinish(o)
    \/ \E o \in Obj : DeleteStart(o)
    \/ \E o \in Obj, raised \in BOOLEAN : DeleteResume(o, raised)

\* One session's file store under concurrency: a persist_file task and a
\* delete task on the same session, interleaved at their awaits (the file
\* opening and writing, the release of each subsession).
SpecFilesConcurrent == Init /\ [][NextFilesConcurrent]_vars

NextQueueConcurrent ==
    \/ /\ nobj < MaxLifecycleObj
       /\ \E sock \in SocketIds : Construct("s1", sock, None, None)
    \/ \E o \in Obj, name \in MethodNames : Enqueue(o, name)
    \/ \E t \in FlushTasks, o \in Obj : FlushStart(t, o)
    \/ \E t \in FlushTasks, raised \in BOOLEAN : FlushResume(t, raised)

\* One session's deferred calls under concurrency: every awaited invocation is
\* a suspension point at which another task may start a flush of the same
\* session or enqueue a call.
SpecQueueConcurrent == Init /\ [][NextQueueConcurrent]_vars

\* ------------------------------------------------------ identity resolver
\* is_oauth_enabled: config.code.oauth_callback and len(providers) > 0
is_oauth_enabled ==
    PyAnd(cfg.oauth_callback, PyBool(Len(cfg.oauth_providers) > 0))

\* Faulty variant of require_login: the header callback is not looked at.
require_login_no_header ==
    PyOr(PyBool(Truthy(cfg.CHAINLIT_CUSTOM_AUTH)),
         PyOr(PyBool(cfg.password_auth_callback # None), is_oauth_enabled))

\* require_login: bool(env flag) or a password callback or a header callback
\* or is_oauth_enabled().
require_login ==
    PyOr(PyBool(Truthy(cfg.CHAINLIT_CUSTOM_AUTH)),
         PyOr(PyBool(cfg.password_auth_callback # None),
              PyOr(PyBool(cfg.header_auth_callback # None), is_oauth_enabled)))

\* get_data_layer()
get_data_layer == cfg.data_layer

\* decode_jwt(token): the identity a valid credential carries, or an exception
\* for a missing, malformed or expired one.
decode_jwt(token) ==
    IF token = "ann" THEN [raises |-> FALSE, user |-> User("ann", "Ann")]
    ELSE IF token = "ann-blank" THEN [raises |-> FALSE, user |-> User("ann", "")]
    ELSE IF token = "ann-unnamed" THEN [raises |-> FALSE, user |-> User("ann", None)]
    ELSE IF token = "bob" THEN [raises |-> FALSE, user |-> User("bob", "Ann")]
    ELSE [raises |-> TRUE, user |-> NoUser]

\* The HTTPException authenticate_user raises when the decoding fails.
Unauthorized ==
    [kind |-> "HTTPException", status_code |-> 401,
     detail |-> "Invalid authentication token",
     headers |-> [name \in {"Clear-Site-Data"} |-> <<"cache", "cookies", "storage">>]]

\* Faulty variant of reconcile: the display name is copied whatever it is.
reconcile_always_copies(user, persisted_user) ==
    [persisted_user EXCEPT !.display_name = user.display_name]

\* The end of authenticate_user with a persisted user in hand: the ephemeral
\* display name, when truthy, is copied onto the persisted user, which is
\* returned.
reconcile(user, persisted_user) ==
    IF user # NoUser /\ Truthy(user.display_name)
    THEN [persisted_user EXCEPT !.display_name = user.display_name]
    ELSE persisted_user

\* Faulty variant of authenticate_first: a credential that does not decode yields no
\* identity instead of an error.
authenticate_first_anonymous(token) ==
    LET d == decode_jwt(token) IN
    IF d.raises
    THEN [IdleAuth EXCEPT !.token = token, !.trace = <<"decode_jwt">>, !.result = NoUser]
    ELSE IF Truthy(get_data_layer)
    THEN [IdleAuth EXCEPT !.pc = "get_user", !.token = token, !.user = d.user,
                          !.trace = <<"decode_jwt">>]
    ELSE [IdleAuth EXCEPT !.token = token, !.user = d.user, !.trace = <<"decode_jwt">>,
                          !.result = d.user]

\* authenticate_user up to its first await or to its end: decode the token
\* (raise Unauthorized when that fails); with a data layer await get_user,
\* without one return the decoded user.
authenticate_first(token) ==
    LET d == decode_jwt(token) IN
    IF d.raises
    THEN [IdleAuth EXCEPT !.token = token, !.trace = <<"decode_jwt">>, !.result = Unauthorized]
    ELSE IF Truthy(get_data_layer)
    THEN [IdleAuth EXCEPT !.pc = "get_user", !.token = token, !.user = d.user,
                          !.trace = <<"decode_jwt">>]
    ELSE [IdleAuth EXCEPT !.token = token, !.user = d.user, !.trace = <<"decode_jwt">>,
                          !.result = d.user]

\* get_current_user up to its first await or to its end: None when login is
\* not required, else authenticate_user(token).
get_current_user_first(token) ==
    IF ~Truthy(require_login)
    THEN [IdleAuth EXCEPT !.token = token, !.result = NoUser]
    ELSE authenticate_first(token)

\* The except clause of authenticate_user: the failure is logged and the
\* decoded user returned.
auth_fallback(a, call, error) ==
    [a EXCEPT !.pc = "idle", !.trace = Append(@, call), !.logged = Append(@, error),
              !.result = a.user]

\* Faulty variant of authenticate_get_user: a failure of get_user leaves authenticate_user.
authenticate_get_user_propagates(raised) ==
    LET found == store[auth.user.identifier] IN
    auth' = IF raised
            THEN [auth EXCEPT !.pc = "idle", !.trace = Append(@, "get_user"),
                              !.result = [kind |-> "Exception"]]
            ELSE IF found = NoUser
            THEN [auth EXCEPT !.pc = "create_user", !.trace = Append(@, "get_user")]
            ELSE [auth EXCEPT !.pc = "idle", !.trace = Append(@, "get_user"),
                              !.result = reconcile(auth.user, found)]

\* authenticate_user from the end of the awaited get_user: it raised (fall
\* back), returned None (await create_user) or returned the persisted user.
authenticate_get_user(raised) ==
    LET found == store[auth.user.identifier] IN
    auth' = IF raised
            THEN auth_fallback(auth, "get_user", "Exception")
            ELSE IF found = NoUser
            THEN [auth EXCEPT !.pc = "create_user", !.trace = Append(@, "get_user")]
            ELSE [auth EXCEPT !.pc = "idle", !.trace = Append(@, "get_user"),
                              !.result = reconcile(auth.user, found)]

\* authenticate_user from the end of the awaited create_user: it raised, or
\* returned None (the assert raises AssertionError), both caught; or returned
\* the user it stored, which has the display name of the decoded user when the
\* data layer stores display names (`named`) and none when it does not.
authenticate_create_user(outcome, named) ==
    LET created == PersistedUser(auth.user.identifier,
                                 IF named THEN auth.user.display_name ELSE None) IN
    IF outcome = "raises"
    THEN /\ auth' = auth_fallback(auth, "create_user", "Exception")
         /\ UNCHANGED store
    ELSE IF outcome = "returns None"
    THEN /\ auth' = auth_fallback(auth, "create_user", "AssertionError")
         /\ UNCHANGED store
    ELSE /\ store' = [store EXCEPT ![auth.user.identifier] = created]
         /\ auth' = [auth EXCEPT !.pc = "idle", !.trace = Append(@, "create_user"),
                                 !.result = reconcile(auth.user, created)]

session_vars == <<nobj, session, ws_sessions_sid, ws_sessions_id, dirs, disk,
                  next_file_id, next_entry, del, pst, flush, calls>>

AuthenticateUser(token) ==
    /\ auth.pc = "idle"
    /\ auth' = [authenticate_first(token) EXCEPT !.entry = "authenticate_user"]
    /\ last' = [op |-> "authenticate_user", obj |-> NoObj]
    /\ UNCHANGED <<session_vars, cfg, store, wrap>>

GetCurrentUser(token) ==
    /\ auth.pc = "idle"
    /\ auth' = [get_current_user_first(token) EXCEPT !.entry = "get_current_user"]
    /\ last' = [op |-> "get_current_user", obj |-> NoObj]
    /\ UNCHANGED <<session_vars, cfg, store, wrap>>

AuthGetUser(raised) ==
    /\ auth.pc = "get_user"
    /\ authenticate_get_user(raised)
    /\ last' = [op |-> auth.entry, obj |-> NoObj]
    /\ UNCHANGED <<session_vars, cfg, store, wrap>>

AuthCreateUser(outcome, named) ==
    /\ auth.pc = "create_user"
    /\ authenticate_create_user(outcome, named)
    /\ last' = [op |-> auth.entry, obj |-> NoObj]
    /\ UNCHANGED <<session_vars, cfg, wrap>>

\* The process starts with some configuration and some store.
InitAuth ==
    /\ InitSessions
    /\ cfg \in Configs
    /\ store \in Stores
    /\ auth = IdleAuth
    /\ wrap = IdleWrap

NextAuth ==
    \/ \E token \in Tokens : AuthenticateUser(token)
    \/ \E token \in Tokens : GetCurrentUser(token)
    \/ \E raised \in BOOLEAN : AuthGetUser(raised)
    \/ \E outcome \in {"raises", "returns None", "returns"}, named \in BOOLEAN :
          AuthCreateUser(outcome, named)

\* The identity resolver: requests resolved one after the other, under every
\* configuration, against a store that may fail at every call.
SpecAuth == InitAuth /\ [][NextAuth]_vars

\* -------------------------------------------------- wrapped user callables
\* how a call of the user function ends: it returns None or a value, it is
\* cancelled, or it raises an Exception
Outcomes == {"returns None", "returns value", "CancelledError", "Exception"}

\* how an awaited call of the emitter ends: it returns, it raises an Exception,
\* or the task is cancelled while it waits
Awaited == {"ok", "Exception", "CancelledError"}

\* the wrapper returns v
Returned(v) == [kind |-> "returned", value |-> v]

\* the wrapper is left by `error`, raised by the callable or at an emitter call
Raised(origin, error) == [kind |-> "raised", origin |-> origin, error |-> error]

\* The wrapper ends: an exception raised on the way out wins, else the value
\* of the return statement of the try body, else None.
wrap_return(w) ==
    [w EXCEPT !.pc = "idle",
              !.result = IF w.pending # NoResult THEN w.pending
                         ELSE Returned(IF w.outcome = "returns value" THEN "value" ELSE None)]

\* Faulty variant of wrap_finally: task_end is awaited after the try statement instead of
\* in its finally clause, so only when nothing is on its way out of the wrapper
\* and the callable was not cancelled.
wrap_finally_after_try(w) ==
    IF w.with_task /\ w.pending = NoResult /\ w.outcome # "CancelledError"
    THEN [w EXCEPT !.pc = "task_end", !.events = Append(@, "task_end")]
    ELSE wrap_return(w)

\* The finally clause: with with_task, task_end is awaited.
wrap_finally(w) ==
    IF w.with_task
    THEN [w EXCEPT !.pc = "task_end", !.events = Append(@, "task_end")]
    ELSE wrap_return(w)

\* Faulty variant of wrap_handle: a cancellation is reported like any other exception.
wrap_handle_reports_cancel(w, outcome) ==
    LET v == [w EXCEPT !.outcome = outcome] IN
    IF outcome \in {"Exception", "CancelledError"}
    THEN [v EXCEPT !.pc = "send",
                   !.events = @ \o <<"log", IF w.with_task THEN "ErrorMessage" ELSE "toast">>]
    ELSE wrap_finally(v)

\* The end of the try body: a return and a CancelledError go to the finally
\* clause; an Exception is logged and the helpdesk message is sent, as an
\* ErrorMessage with with_task and as a toast without, which is awaited.
wrap_handle(w, outcome) ==
    LET v == [w EXCEPT !.outcome = outcome] IN
    IF outcome = "Exception"
    THEN [v EXCEPT !.pc = "send",
                   !.events = @ \o <<"log", IF w.with_task THEN "ErrorMessage" ELSE "toast">>]
    ELSE wrap_finally(v)

\* The try body: the user function is called with params_values.  With fewer
\* entries than the function has parameters the call itself raises TypeError;
\* a coroutine function is awaited; a plain function has ended, with
\* `outcome`, when the call is over.
wrap_call(w, outcome) ==
    LET v == [w EXCEPT !.events = Append(@, "user_function")] IN
    IF w.params_values < w.params THEN wrap_handle(v, "Exception")
    ELSE IF w.is_coroutine THEN [v EXCEPT !.pc = "user_function"]
    ELSE wrap_handle(v, outcome)

\* zip(user_function_params, args): as many pairs as the shorter of the two
zip(params, args) == IF params < args THEN params ELSE args

\* The wrapper of a function of `params` parameters is called with `args`
\* arguments.
WrapCall(with_task, is_coroutine, params, args, outcome) ==
    /\ wrap.pc = "idle"
    /\ LET w == [IdleWrap EXCEPT !.with_task = with_task, !.is_coroutine = is_coroutine,
                                 !.params = params, !.params_values = zip(params, args)]
       IN  wrap' = IF with_task
                   THEN [w EXCEPT !.pc = "task_start", !.events = <<"task_start">>]
                   ELSE wrap_call(w, outcome)
    /\ last' = [op |-> "wrapper", obj |-> NoObj]
    /\ UNCHANGED <<session_vars, cfg, store, auth>>

\* task_start has been awaited: when it raised the wrapper is left, before the
\* try statement.
WrapTaskStarted(awaited, outcome) ==
    /\ wrap.pc = "task_start"
    /\ wrap' = IF awaited # "ok"
               THEN [wrap EXCEPT !.pc = "idle", !.result = Raised("emitter", awaited)]
               ELSE wrap_call(wrap, outcome)
    /\ last' = [op |-> "wrapper", obj |-> NoObj]
    /\ UNCHANGED <<session_vars, cfg, store, auth>>

\* The awaited user coroutine has ended.
WrapUserDone(outcome) ==
    /\ wrap.pc = "user_function"
    /\ wrap' = wrap_handle(wrap, outcome)
    /\ last' = [op |-> "wrapper", obj |-> NoObj]
    /\ UNCHANGED <<session_vars, cfg, store, auth>>

\* The awaited ErrorMessage.send() or send_toast has ended: what it raised
\* leaves the wrapper, through the finally clause.
WrapSent(awaited) ==
    /\ wrap.pc = "send"
    /\ wrap' = wrap_finally([wrap EXCEPT !.pending =
                   IF awaited # "ok" THEN Raised("emitter", awaited) ELSE @])
    /\ last' = [op |-> "wrapper", obj |-> NoObj]
    /\ UNCHANGED <<session_vars, cfg, store, auth>>

\* The awaited task_end has ended.
WrapTaskEnded(awaited) ==
    /\ wrap.pc = "task_end"
    /\ wrap' = wrap_return([wrap EXCEPT !.pending =
                   IF awaited # "ok" THEN Raised("emitter", awaited) ELSE @])
    /\ last' = [op |-> "wrapper", obj |-> NoObj]
    /\ UNCHANGED <<session_vars, cfg, store, auth>>

NextWrap ==
    \/ \E with_task, is_coroutine \in BOOLEAN, params, args \in 0..MaxParams,
          outcome \in Outcomes :
             WrapCall(with_task, is_coroutine, params, args, outcome)
    \/ \E awaited \in Awaited, outcome \in Outcomes : WrapTaskStarted(awaited, outcome)
    \/ \E outcome \in Outcomes : WrapUserDone(outcome)
    \/ \E awaited \in Awaited : WrapSent(awaited)
    \/ \E awaited \in Awaited : WrapTaskEnded(awaited)

\* Calls of a wrapped user callable, one after the other: plain and coroutine
\* functions, with and without the task bracket, the callable returning,
\* raising or being cancelled, the emitter failing or not at every call.
SpecWrap == Init /\ [][NextWrap]_vars

\* ------------------------------------------------------------------ claims
\* The session a socket id resolves to is object o.
Resolves(o, socket_id) == get(socket_id) = o

\* Constructed and not yet deleted.
Live(o) == Constructed(o) /\ del[o].pc = "idle"

\* C1: a session registered under socket id `old` that is reconnected under
\* another socket id `new` is afterwards absent under `old`, present under
\* `new`, still what get_by_id returned for its session id before, and its
\* restored flag is set.
C1_ReconnectPostcondition ==
    [][\A o \in Obj, new \in SocketIds :
          LET old == session[o].socket_id IN
          (Restore(o, new) /\ Resolves(o, old) /\ new # old)
             => /\ ws_sessions_sid'[old] = NoObj
                /\ ws_sessions_sid'[new] = o
                /\ ws_sessions_id'[session[o].id] = ws_sessions_id[session[o].id]
                /\ session'[o].id = session[o].id
                /\ session'[o].restored]_vars

\* A reconnected session, reachable by its new socket id and by its session id,
\* while some other socket id resolves to nothing.
C1_Witness ==
    \E o \in Obj :
        /\ last = [op |-> "restore", obj |-> o]
        /\ session[o].restored
        /\ Resolves(o, session[o].socket_id)
        /\ get_by_id(session[o].id) = o
        /\ \E s \in SocketIds : get(s) = NoObj

\* C3: a connection for a session id the session-id table holds a session for
\* reconnects that session: no object is constructed, the session-id table is
\* unchanged, the session is registered under the new socket id with restored
\* set and every other field as it was.  A connection for a session id the table
\* holds nothing for constructs one object and registers it in both tables.
C3_CreateOrAttach ==
    [][\A id \in SessionIds, sock \in SocketIds, a \in ConstructArgs :
          CreateOrAttach(id, sock, a.thread_id, a.user) =>
             IF get_by_id(id) # NoObj
             THEN LET o == get_by_id(id) IN
                  /\ nobj' = nobj
                  /\ ws_sessions_id' = ws_sessions_id
                  /\ ws_sessions_sid'[sock] = o
                  /\ session' = [session EXCEPT ![o].socket_id = sock,
                                                ![o].restored = TRUE]
             ELSE /\ nobj' = nobj + 1
                  /\ ws_sessions_id'[id] = nobj'
                  /\ ws_sessions_sid'[sock] = nobj'
                  /\ session'[nobj'] = NewSession(nobj', id, sock, a.thread_id, a.user)
                  /\ \A p \in Obj \ {nobj'} : session'[p] = session[p]]_vars

\* A connection has just attached to the one session there is, which was built
\* with a thread to resume and a user, and these are still there.
C3_Witness ==
    /\ last = [op |-> "attach", obj |-> 1]
    /\ nobj = 1
    /\ session[1].restored
    /\ session[1].thread_id = "t1"
    /\ session[1].user = "u1"
    /\ get_by_id(session[1].id) = 1
    /\ Resolves(1, session[1].socket_id)

\* C4: a reconnection is one step.  Where a session registered under `old` is
\* reconnected under `new`, exactly one socket id resolves to it before the
\* step (old) and exactly one after it (new): no state has neither of the two
\* resolving to it, none has both.
C4_ReconnectAtomic ==
    [][\A o \in Obj, new \in SocketIds :
          LET old == session[o].socket_id IN
          (Restore(o, new) /\ Resolves(o, old))
             => /\ {s \in SocketIds : Resolves(o, s)} = {old}
                /\ {s \in SocketIds : ws_sessions_sid'[s] = o} = {new}]_vars

\* A reconnected session resolves under exactly one socket id while a second
\* session, whose tasks could be looking it up, is registered too.
C4_Witness ==
    \E o, p \in Obj :
        /\ o # p
        /\ last = [op |-> "restore", obj |-> o]
        /\ session[o].restored
        /\ Cardinality({s \in SocketIds : Resolves(o, s)}) = 1
        /\ \E s \in SocketIds : Resolves(p, s)

\* C5: a socket id reaches at most one session, and a session id belongs to at
\* most one live (constructed, not deleted) session.
C5_RegistryInvariant ==
    /\ \A s \in SocketIds : Cardinality({o \in Obj : Constructed(o) /\ Resolves(o, s)}) <= 1
    /\ \A o, p \in Obj :
          (Live(o) /\ Live(p) /\ session[o].id = session[p].id) => o = p

\* C2: a reconnection changes nothing but the socket id, the restored flag and
\* the socket-id table: files, chat_settings, thread_id, user and the deferred
\* queues of the session, every other session, the session-id table and the
\* disk are as before.  Step by step, this holds of every sequence of
\* reconnections.
C2_RestoreFrame ==
    [][\A o \in Obj, new \in SocketIds :
          Restore(o, new) =>
             /\ session'[o].files = session[o].files
             /\ session'[o].chat_settings = session[o].chat_settings
             /\ session'[o].thread_id = session[o].thread_id
             /\ session'[o].user = session[o].user
             /\ session'[o].thread_queues = session[o].thread_queues
             /\ session'[o].id = session[o].id
             /\ session'[o].mcp_sessions = session[o].mcp_sessions
             /\ \A p \in Obj \ {o} : session'[p] = session[p]
             /\ UNCHANGED <<nobj, ws_sessions_id, dirs, disk, calls>>]_vars

\* A session holding a file, changed settings, a deferred call, a resumed
\* thread and a user has just been reconnected.
C2_Witness ==
    /\ last = [op |-> "restore", obj |-> 1]
    /\ session[1].restored
    /\ session[1].files # {}
    /\ session[1].chat_settings = 1
    /\ session[1].thread_queues # <<>>
    /\ session[1].thread_id = "t1"
    /\ session[1].user = "u1"

\* delete() of object o has just returned.
DeleteReturned(o) == del[o].pc = "done" /\ last = [op |-> "delete", obj |-> o]

\* C6: when delete() of a session returns, its socket id and its session id
\* resolve to nothing and its file directory is not on disk, whether or not the
\* directory had been made.
C6_DeletePostcondition ==
    \A o \in Obj :
        DeleteReturned(o) =>
            /\ get(session[o].socket_id) = NoObj
            /\ get_by_id(session[o].id) = NoObj
            /\ files_dir(o) \notin dirs
            /\ \A f \in disk : f.path.dir # files_dir(o)

\* A session that persisted a file (so its directory was made) has been deleted.
C6_Witness ==
    \E o \in Obj :
        /\ DeleteReturned(o)
        /\ session[o].files # {}
        /\ files_dir(o) \notin dirs

\* C7: delete() never ends by an exception of a release; while it releases and
\* when it has returned, both registry entries are gone; and when it has
\* returned every subsession's release has been invoked, once and in order,
\* whichever of them failed.
C7_ReleaseAll ==
    \A o \in Obj :
        /\ del[o].pc # "raised"
        /\ (del[o].pc = "closing" \/ DeleteReturned(o)) =>
              /\ get(session[o].socket_id) = NoObj
              /\ get_by_id(session[o].id) = NoObj
        /\ del[o].pc = "closing" =>
              del[o].released = SubSeq(session[o].mcp_sessions, 1, del[o].k)
        /\ DeleteReturned(o) =>
              /\ del[o].released = session[o].mcp_sessions
              /\ del[o].failed \subseteq {session[o].mcp_sessions[i] :
                                            i \in 1..Len(session[o].mcp_sessions)}

\* A delete has returned after releasing two subsessions, the first of which
\* failed.
C7_Witness ==
    \E o \in Obj :
        /\ DeleteReturned(o)
        /\ Len(session[o].mcp_sessions) = 2
        /\ session[o].mcp_sessions[1] \in del[o].failed
        /\ del[o].released = session[o].mcp_sessions

\* A flush of object o has just left flush_method_queue.
FlushLeft(o) ==
    /\ last = [op |-> "flush", obj |-> o]
    /\ \A t \in FlushTasks : flush[t].obj = o => flush[t].pc = "idle"

\* The entries waiting in the deferred queue of `name` on object o.
Waiting(o, name) ==
    LET qs == session[o].thread_queues
        i == QueueIndex(qs, name)
    IN  IF i = 0 THEN {} ELSE {qs[i].queue[k] : k \in 1..Len(qs[i].queue)}

\* C8: the entries of one method name are invoked in the order they were
\* enqueued (entry identities grow with the enqueue order): an invoked entry
\* is older than every later invoked and every waiting entry of its name; and
\* a failed entry does not stop the flush: when the flush is over no entry of
\* the failed entry's name is left waiting.
C8_FifoPerMethod ==
    \A o \in Obj :
        LET cs == calls[o] IN
        /\ \A i, j \in 1..Len(cs) :
              (i < j /\ cs[i].name = cs[j].name) => cs[i].entry < cs[j].entry
        /\ \A i \in 1..Len(cs) : \A e \in Waiting(o, cs[i].name) : cs[i].entry < e
        /\ FlushLeft(o) =>
              \A i \in 1..Len(cs) : cs[i].status = "failed" => Waiting(o, cs[i].name) = {}

\* Three entries of one method name have been invoked in their enqueue order,
\* the second failed, the first and third succeeded.
C8_Witness ==
    \E o \in Obj :
        /\ FlushLeft(o)
        /\ Len(calls[o]) = 3
        /\ [i \in 1..3 |-> calls[o][i].entry] = <<1, 2, 3>>
        /\ [i \in 1..3 |-> calls[o][i].status] = <<"ok", "failed", "ok">>
        /\ calls[o][1].name = calls[o][2].name
        /\ calls[o][2].name = calls[o][3].name

\* The entries ever enqueued on object o: invoked or still waiting.
EntriesOf(o) ==
    {calls[o][i].entry : i \in 1..Len(calls[o])}
       \cup UNION {Waiting(o, name) : name \in MethodNames}

\* C9: no entry is invoked twice and none is lost; and when a flush is over it
\* has returned normally, every method queue of the session is empty and every
\* entry has finished, whichever entries failed.
C9_FlushDrainsAll ==
    /\ \A o \in Obj :
          LET cs == calls[o] IN
          /\ \A i, j \in 1..Len(cs) : cs[i].entry = cs[j].entry => i = j
          /\ \A i \in 1..Len(cs) : \A name \in MethodNames : cs[i].entry \notin Waiting(o, name)
          /\ FlushLeft(o) =>
                /\ \E t \in FlushTasks : flush[t].obj = o /\ flush[t].result = "returned"
                /\ \A t \in FlushTasks : flush[t].obj = o => flush[t].result = "returned"
                /\ \A name \in MethodNames : Waiting(o, name) = {}
                /\ \A i \in 1..Len(cs) : cs[i].status \in {"ok", "failed"}
    /\ UNION {EntriesOf(o) : o \in Obj} = 1..(next_entry - 1)

\* A flush is over on a session with two method queues: the entry of the first
\* queue failed and the entry of the second queue ran after it.
C9_Witness ==
    \E o \in Obj :
        /\ FlushLeft(o)
        /\ Len(session[o].thread_queues) = 2
        /\ Len(calls[o]) >= 2
        /\ calls[o][1].status = "failed"
        /\ calls[o][1].name # calls[o][2].name
        /\ calls[o][2].status = "ok"

\* C10: persist_file with neither path nor content raises ValueError and
\* changes nothing: session.files, the file-id source, the directories and
\* the disk are as before.
C10_PersistInvalidArgument ==
    [][\A o \in Obj, mime \in MimeTypes :
          PersistStart(o, "n", mime, None, NoContent) =>
             /\ pst'[o].pc = "idle"
             /\ pst'[o].result = "ValueError"
             /\ session' = session
             /\ next_file_id' = next_file_id
             /\ dirs' = dirs
             /\ disk' = disk]_vars

\* A persist_file call given no path and no content has just failed on a
\* session whose directory was never made.
C10_Witness ==
    \E o \in Obj :
        /\ last = [op |-> "persist_file", obj |-> o]
        /\ pst[o].result = "ValueError"
        /\ pst[o].path = None
        /\ pst[o].given = "none"
        /\ files_dir(o) \notin dirs
        /\ session[o].files = {}

\* C11: persist_file given inline content (text or bytes, of any length, zero
\* included) and no path succeeds: the call draws a fresh file id and goes on
\* to write the content's bytes (the UTF-8 encoding of text, bytes as they
\* are), and when it returns session.files has gained exactly one record, keyed
\* by that id, whose size is the number of bytes written.
C11_PersistContent ==
    /\ [][\A o \in Obj, mime \in MimeTypes, content \in ContentArgs \ {NoContent} :
             PersistStart(o, "n", mime, None, content) =>
                /\ pst'[o].pc = "open"
                /\ pst'[o].fid \notin {f.id : f \in session[o].files}
                /\ pst'[o].data = ContentBytes(content)]_vars
    /\ [][\A o \in Obj :
             (PersistFinish(o) /\ pst[o].given # "none" /\ ~TruthyPath(pst[o].path)) =>
                /\ pst'[o].result = "ok"
                /\ \E r \in session'[o].files :
                      /\ r.id = pst[o].fid
                      /\ r.size = Len(pst[o].data)
                      /\ session'[o].files = session[o].files \cup {r}
                      /\ r \notin session[o].files]_vars

\* The identity resolver has just returned or raised, entered by `entry`.
Resolved(entry) ==
    /\ last = [op |-> entry, obj |-> NoObj]
    /\ auth.pc = "idle"

\* C12: with a persistent-identity store configured, a get_user or create_user
\* call that fails does not fail authenticate_user: the call ends at once and
\* returns the identity decoded from the credential, unmodified.
C12_StoreFailureFallsBack ==
    [][/\ AuthGetUser(TRUE) =>
             /\ auth'.pc = "idle"
             /\ auth'.result = decode_jwt(auth.token).user
             /\ auth'.result.kind = "User"
       /\ \A named \in BOOLEAN :
             AuthCreateUser("raises", named) =>
                /\ auth'.pc = "idle"
                /\ auth'.result = decode_jwt(auth.token).user
                /\ auth'.result.kind = "User"
                /\ store' = store]_vars

\* authenticate_user has returned the decoded identity after get_user found
\* nothing and create_user failed.
C12_Witness ==
    /\ Resolved("authenticate_user")
    /\ cfg.data_layer # None
    /\ auth.trace = <<"decode_jwt", "get_user", "create_user">>
    /\ auth.logged = <<"Exception">>
    /\ auth.result = User("ann", "Ann")

\* Login is required, in the specification's words: the always-require-auth
\* flag is set, or a password callback or a header callback is configured, or
\* an OAuth provider is configured and OAuth is enabled.
LoginRequired ==
    \/ cfg.CHAINLIT_CUSTOM_AUTH \notin {None, ""}
    \/ cfg.password_auth_callback # None
    \/ cfg.header_auth_callback # None
    \/ (cfg.oauth_callback # None /\ cfg.oauth_providers # <<>>)

\* C13: when login is not required get_current_user returns no identity for
\* every token, at once, having called neither decode_jwt nor the store; when
\* login is required it does what authenticate_user does on that token.
C13_LoginGate ==
    [][\A token \in Tokens :
          GetCurrentUser(token) =>
             IF ~LoginRequired
             THEN /\ auth'.pc = "idle"
                  /\ auth'.result = NoUser
                  /\ auth'.trace = <<>>
                  /\ store' = store
             ELSE auth' = [authenticate_first(token) EXCEPT !.entry = "get_current_user"]]_vars

\* get_current_user has returned no identity for a valid token, without
\* decoding it, where nothing requires login although a data layer and an
\* OAuth callback (but no provider) are configured.
C13_Witness ==
    /\ Resolved("get_current_user")
    /\ ~LoginRequired
    /\ cfg.oauth_callback # None
    /\ cfg.data_layer # None
    /\ auth.token = "ann"
    /\ auth.result = NoUser
    /\ auth.trace = <<>>

\* C14: when the credential does not decode, authenticate_user ends at once by
\* raising the 401 HTTPException that carries the Clear-Site-Data directive:
\* no identity is returned, and neither get_user nor create_user is called.
C14_DecodeFailureUnauthorized ==
    [][\A token \in Tokens :
          (AuthenticateUser(token) /\ decode_jwt(token).raises) =>
             /\ auth'.pc = "idle"
             /\ auth'.result.kind = "HTTPException"
             /\ auth'.result.status_code = 401
             /\ auth'.result.headers["Clear-Site-Data"] = <<"cache", "cookies", "storage">>
             /\ auth'.trace = <<"decode_jwt">>
             /\ store' = store]_vars

\* authenticate_user has raised Unauthorized for an expired token where a data
\* layer is configured and holds the user.
C14_Witness ==
    /\ Resolved("authenticate_user")
    /\ cfg.data_layer # None
    /\ store["ann"] # NoUser
    /\ auth.token = "expired"
    /\ auth.result = Unauthorized
    /\ auth.trace = <<"decode_jwt">>

\* What the resolver is to return for the decoded `user` and the `persisted` one.
Reconciled(user, persisted) ==
    [kind |-> "PersistedUser", identifier |-> persisted.identifier, id |-> persisted.id,
     display_name |-> IF user.display_name \in {None, ""}
                      THEN persisted.display_name ELSE user.display_name]

\* C15: with a store that succeeds, authenticate_user returns the persisted
\* identity: the one get_user found, or the one create_user made when get_user
\* found none.  Its display name is the decoded one when that is non-empty and
\* the stored one when the decoded one is empty or missing; its other fields
\* are as stored, and the store is not written by the reconciliation.
C15_DisplayNameReconciliation ==
    [][/\ (AuthGetUser(FALSE) /\ store[auth.user.identifier] # NoUser) =>
             /\ auth'.pc = "idle"
             /\ auth'.result = Reconciled(auth.user, store[auth.user.identifier])
             /\ store' = store
       /\ (AuthGetUser(FALSE) /\ store[auth.user.identifier] = NoUser) =>
             /\ auth'.pc = "create_user"
             /\ auth'.result = NoResult
       /\ \A named \in BOOLEAN :
             AuthCreateUser("returns", named) =>
                /\ store[auth.user.identifier] = NoUser
                /\ store'[auth.user.identifier].identifier = auth.user.identifier
                /\ \A i \in Identifiers \ {auth.user.identifier} : store'[i] = store[i]
                /\ auth'.pc = "idle"
                /\ auth'.result = Reconciled(auth.user, store'[auth.user.identifier])]_vars

\* authenticate_user has returned the stored identity with its stored display
\* name, the decoded display name being empty.
C15_Witness ==
    /\ Resolved("authenticate_user")
    /\ auth.token = "ann-blank"
    /\ auth.trace = <<"decode_jwt", "get_user">>
    /\ auth.result = PersistedUser("ann", "Old")

\* How many times `ev` occurs in the events of the wrapper's run.
Count(events, ev) == Cardinality({i \in 1..Len(events) : events[i] = ev})

\* C16: when the wrapped callable is cancelled nothing is logged and neither
\* an ErrorMessage nor a toast is sent; when it raises another exception the
\* failure is logged once and exactly one helpdesk message is sent, an
\* ErrorMessage with with_task and a toast without; in both cases the
\* callable's exception does not leave the wrapper, which returns None unless
\* a call of the emitter raised.
C16_CancelSilentErrorReported ==
    /\ wrap.outcome \in {"CancelledError", "returns None", "returns value"} =>
          /\ Count(wrap.events, "log") = 0
          /\ Count(wrap.events, "ErrorMessage") = 0
          /\ Count(wrap.events, "toast") = 0
    /\ wrap.outcome = "Exception" =>
          /\ Count(wrap.events, "log") = 1
          /\ Count(wrap.events, "ErrorMessage") = (IF wrap.with_task THEN 1 ELSE 0)
          /\ Count(wrap.events, "toast") = (IF wrap.with_task THEN 0 ELSE 1)
    /\ (wrap.pc = "idle" /\ wrap.outcome \in {"CancelledError", "Exception"}) =>
          /\ wrap.result.kind = "raised" => wrap.result.origin = "emitter"
          /\ wrap.pending = NoResult => wrap.result = Returned(None)

\* The wrapper of a coroutine function, called with the task bracket, has
\* returned None after the coroutine was cancelled: nothing was reported.
C16_Witness ==
    /\ last = [op |-> "wrapper", obj |-> NoObj]
    /\ wrap.pc = "idle"
    /\ wrap.is_coroutine
    /\ wrap.outcome = "CancelledError"
    /\ wrap.events = <<"task_start", "user_function", "task_end">>
    /\ wrap.result = Returned(None)

\* C17: under every interleaving of flushes and enqueues on one session, an
\* entry that is executing is the oldest unfinished entry of its method name
\* (every older entry of the name has finished, none is executing or waiting),
\* and no entry is lost or executed twice.
C17_FifoUnderConcurrency ==
    /\ \A o \in Obj :
          LET cs == calls[o] IN
          /\ \A j \in 1..Len(cs) :
                cs[j].status = "running" =>
                   /\ \A i \in 1..Len(cs) :
                         (cs[i].name = cs[j].name /\ cs[i].entry < cs[j].entry)
                            => cs[i].status \in {"ok", "failed"}
                   /\ \A e \in Waiting(o, cs[j].name) : cs[j].entry < e
          /\ \A i, j \in 1..Len(cs) : cs[i].entry = cs[j].entry => i = j
          /\ \A i \in 1..Len(cs) : \A name \in MethodNames : cs[i].entry \notin Waiting(o, name)
    /\ UNION {EntriesOf(o) : o \in Obj} = 1..(next_entry - 1)

\* C18: once delete() of a session has completed, its file directory does not
\* exist, and no file of the session is on disk, in any later state, whatever
\* persist_file calls overlap or follow the delete.
C18_DirectoryGoneAfterDelete ==
    \A o \in Obj :
        del[o].pc = "done" =>
            /\ files_dir(o) \notin dirs
            /\ \A f \in disk : f.path.dir # files_dir(o)

\* C19: session.files grows only by append.  No step removes or changes a
\* record; a persist_file that returns adds exactly one record, keyed by a
\* file id that was not in session.files; every other step (a persist_file
\* that fails, a reconnection, a flush) leaves session.files as it was.
C19_FilesAppendOnly ==
    [][\A o \in Obj :
          Constructed(o) =>
             /\ session[o].files \subseteq session'[o].files
             /\ IF PersistFinish(o) /\ pst'[o].result = "ok"
                THEN \E r \in session'[o].files :
                        /\ r.id = pst[o].fid
                        /\ r.id \notin {f.id : f \in session[o].files}
                        /\ session'[o].files = session[o].files \cup {r}
                ELSE session'[o].files = session[o].files]_vars

\* A reconnected session that has flushed a deferred call holds two file
\* records, and a persist_file call on it has just failed.
C19_Witness ==
    \E o \in Obj :
        /\ last = [op |-> "persist_file", obj |-> o]
        /\ pst[o].result = "ValueError"
        /\ Cardinality({f.id : f \in session[o].files}) = 2
        /\ session[o].restored
        /\ calls[o] # <<>>

\* C20: the two registry tables agree.  Every entry of the socket-id table is
\* keyed by the current socket_id of the session it holds, and a session is in
\* the socket-id table exactly when the session-id table holds that same
\* session under its id.
C20_RegistryTablesConsistent ==
    /\ \A s \in SocketIds :
          get(s) # NoObj => session[get(s)].socket_id = s
    /\ \A o \in Obj :
          Constructed(o) =>
             ((\E s \in SocketIds : Resolves(o, s)) <=> get_by_id(session[o].id) = o)

\* C21: delete() of a session removes only the registry entries that hold that
\* session: an entry holding another session is left as it was, so every other
\* session that was reachable by its socket id and by its session id before
\* the call is reachable by both after it.  This covers a second delete, and
\* a delete after another session took the session id or the socket id.
C21_DeleteIsolation ==
    [][\A o \in Obj :
          DeleteStart(o) =>
             /\ \A s \in SocketIds : ws_sessions_sid[s] # o => ws_sessions_sid'[s] = ws_sessions_sid[s]
             /\ \A id \in SessionIds : ws_sessions_id[id] # o => ws_sessions_id'[id] = ws_sessions_id[id]
             /\ \A p \in Obj \ {o} :
                   (Constructed(p) /\ Resolves(p, session[p].socket_id)
                       /\ get_by_id(session[p].id) = p)
                      => /\ ws_sessions_sid'[session[p].socket_id] = p
                         /\ ws_sessions_id'[session[p].id] = p]_vars

\* The positions of `ev` in the events of the wrapper's run.
Positions(events, ev) == {i \in 1..Len(events) : events[i] = ev}

\* C22: the task bracket is paired.  Without with_task the wrapper calls
\* neither task_start nor task_end.  With with_task, task_start is the first
\* call of the run and is made once; task_end is never called before the
\* callable has ended nor more than once; and when the run is over after the
\* callable returned, raised or was cancelled, task_end has been called
\* exactly once, as the last call of the run, hence after the ErrorMessage
\* sent for a failure.
C22_TaskBracketPaired ==
    /\ ~wrap.with_task =>
          /\ Count(wrap.events, "task_start") = 0
          /\ Count(wrap.events, "task_end") = 0
    /\ (wrap.with_task /\ wrap.events # <<>>) =>
          /\ Positions(wrap.events, "task_start") = {1}
          /\ Count(wrap.events, "task_end") <= 1
    /\ (wrap.with_task /\ wrap.pc \in {"task_start", "user_function", "send"}) =>
          Count(wrap.events, "task_end") = 0
    /\ (wrap.with_task /\ wrap.pc \in {"task_end", "idle"} /\ wrap.outcome # None) =>
          /\ Positions(wrap.events, "task_end") = {Len(wrap.events)}
          /\ \A i \in Positions(wrap.events, "ErrorMessage") : i < Len(wrap.events)
          /\ wrap.outcome = "Exception" => Count(wrap.events, "ErrorMessage") = 1

\* A run with the task bracket is over in which the callable raised: task_start
\* came first, the ErrorMessage was sent, task_end came last.
C22_Witness ==
    /\ last = [op |-> "wrapper", obj |-> NoObj]
    /\ wrap.pc = "idle"
    /\ wrap.with_task
    /\ wrap.outcome = "Exception"
    /\ wrap.events = <<"task_start", "user_function", "log", "ErrorMessage", "task_end">>
====
